---- MODULE Spec2Model ----
(***************************************************************************)
(* Model of pyrona's behavior scheduler (src/src/pyrona/when.py): the      *)
(* per-region MCS-style queue, the two-phase enqueue of _Behavior.schedule,*)
(* the release/hand-off of _Request.release, the termination counter of    *)
(* _Terminator, the exception queue drained by wait(), and the notice of   *)
(* src/src/pyrona/notice.py that zero-region behaviors read and write; and  *)
(* of the region model of src/src/pyrona/core.py: the open/closed,         *)
(* shared/private and free/owned state of a Region, its children, its root *)
(* namespace, the isolation check of the wrapped objects, capture, freeze, *)
(* merge and its aliases, detach_all, the registry of regions, Freezer.    *)
(*                                                                         *)
(* Every lock-protected critical section and every unlocked read or write  *)
(* of shared state is one atomic step; the steps of different threads      *)
(* interleave freely.  Workers are the main thread (0) and one thread per  *)
(* behavior (Thread(target=self) in _Behavior.resolve_one).  A call of the *)
(* region interface is one atomic step of the worker that makes it.        *)
(***************************************************************************)
EXTENDS Integers, Sequences, FiniteSets, TLC

\* Bounds of the model.
MaxBehaviors == 3
NumRegions == 2
MaxCowns == 2
\* Regions the scheduler programs never make shareable.
NumPrivate == 1
\* Nesting depth of the 'with' scopes of a worker.
MaxDepth == 2
\* Number of freeze calls of a program.
MaxFreeze == 1
\* Number of behaviors of a program that also opens and shares regions.
MaxProgram == 2
\* Nesting depth of the values a program stores in a region it freezes.
MaxNest == 2
\* Number of Region objects that threads construct side by side.
MaxCreate == 4

Behaviors == 1 .. MaxBehaviors
\* Region identities, assigned from a counter by Region.__init__.
Regions == 1 .. NumRegions
Main == 0
Workers == {Main} \cup Behaviors
None == 0
NoWorker == -1
NoReq == <<0, 0>>
ReqIdx == 1 .. MaxCowns
\* Every Region object: the regions given to when(...) and the others.
AllRegions == 1 .. NumRegions + NumPrivate
\* Longest chain of calls over distinct regions, plus one.
Depth == NumRegions + NumPrivate + 1
\* What a loop that never ends returns.
NoReturn == -1
\* User objects: o1 = MockObject() with o1.f = o2, o2 = MockObject(), and the
\* dict d = {"Alice": 1000}.
Objects == {"o1", "o2", "d"}
NoObj == ""
\* list, tuple, set and dict objects take no '__region__' attribute.
Containers == {"d"}
\* The attribute of an object that holds another object.
Attr(o) == IF o = "o1" THEN "o2" ELSE NoObj
\* Methods of RegionIsolatedObject that read the inner object, and that write it.
ReadOps == {"__getattr__", "__getitem__", "__add__", "__lt__", "__call__", "__iter__"}
WriteOps == {"__setattr__", "__setitem__"}
\* Immutable values a program stores in an object.
Data == 0 .. 1
\* Names a program passes to Region(name): str values, encoded as numbers that
\* are no region identity (a str is never equal to an int key of _regions).
Names == {NumRegions + NumPrivate + 11, NumRegions + NumPrivate + 12}
\* The status properties of a Region.
StatusOps == {"is_shared", "is_private", "is_open", "is_closed"}

VARIABLES
    nbeh,        \* number of _Behavior objects constructed so far
    submitter,   \* submitter[b]: the worker that called when(...) for b
    requests,    \* requests[b]: target region of each _Request of b
    count,       \* _Behavior.count
    next,        \* _Request.next, per request <<b, i>>
    scheduled,   \* _Request.scheduled, per request <<b, i>>
    last,        \* Region.last: tail request of the region's queue
    is_open_,    \* Region.is_open_: ident of the thread that opened it
    spc,         \* position of the submitter inside schedule() for b
    sidx,        \* index of the request the submitter is working on
    prev,        \* local 'prev' of the running start_enqueue of b
    tpc,         \* position of the thread running _Behavior.__call__
    ridx,        \* index of the request being released
    t_count,     \* _Terminator._count
    t_event,     \* _Terminator._event
    exceptions,  \* _exceptions: behaviors whose thunk raised, in order
    mpc,         \* position of the main thread
    wait_ex,     \* what wait() raised (None: nothing)
    notice,      \* Notice.value of the one registered notice
    kind,        \* kind[b]: what the thunk of b does to the notice
    nread,       \* nread[b]: the value b's thunk got from notice_read or
                 \* notice_exchange
    data,        \* data[r]: behaviors whose thunk has written region r
    seen,        \* seen[b][r]: data[r] as read by b's thunk
    order,       \* history: order[r], the requests in order of their exchange on r
    raised,      \* history: behaviors in the order in which their thunk raised
    before,      \* history: before[b], behaviors whose when() had returned
                 \*   when b's when() was called
    is_shared_,  \* Region.is_shared_
    __region__,  \* '__region__' of a Region: identity of its parent, or None
    children,    \* Region.children
    root,        \* the attribute f of Region.root
    obj_region,  \* '__region__' of a user object
    inner,       \* the data a user object holds
    scopes,      \* scopes[w]: regions of the 'with' blocks w is inside, innermost first
    ret,         \* the last call of the region interface and its outcome
    hung,        \* workers inside a call that never returns
    nfreeze,     \* number of freeze calls made
    alias,       \* Region.alias: the region a merged handle forwards to
    _region_aliases, \* the module global _region_aliases
    merged,      \* merged[r]: regions whose root merge() stored in the root of r
    home,        \* home[r]: '__region__' of the wrapper that is r.root
    fresh,       \* identities the counter of Region.__init__ has not reached
    rname,       \* Region.name
    frz,         \* the argument and the result of the last Freezer call
    _counter,    \* _counter["value"]
    _regions,    \* _regions: the Region object registered under each key
    identity_,   \* identity_[o]: '__identity__' of the Region object o
    cpc,         \* cpc[w]: position of worker w inside Region.__init__
    cobj,        \* cobj[w]: the Region object worker w is constructing
    nobj         \* number of Region objects whose construction has begun

\* The variables of the region model, but last and is_open_.
rvars == <<is_shared_, __region__, children, root, obj_region, inner, scopes,
           ret, hung, nfreeze, alias, _region_aliases, merged, home, fresh,
           rname, frz, _counter, _regions, identity_, cpc, cobj, nobj>>

\* The variables of Region.__init__ run by several threads.
cvars == <<_counter, _regions, identity_, cpc, cobj, nobj>>

\* The variables of merge, detach_all, Region.__init__ and Freezer.
mvars == <<alias, _region_aliases, merged, home, fresh, rname, frz, cvars>>

\* The variables of the scheduler, but last and is_open_.
svars == <<nbeh, submitter, requests, count, next, scheduled, spc, sidx, prev,
           tpc, ridx, t_count, t_event, exceptions, mpc, wait_ex, notice, kind,
           nread, data, seen, order, raised, before>>

vars == <<nbeh, submitter, requests, count, next, scheduled, last,
          is_open_, spc, sidx, prev, tpc, ridx, t_count, t_event, exceptions,
          mpc, wait_ex, notice, kind, nread, data, seen, order, raised,
          before, rvars>>

\* ---------------------------------------------------------------------------
\* Pure helpers

RECURSIVE Insert(_, _)
Insert(x, s) ==
    IF s = <<>> THEN <<x>>
    ELSE IF x < Head(s) THEN <<x>> \o s
    ELSE <<Head(s)>> \o Insert(x, Tail(s))

RECURSIVE SortCowns(_)
\* list(cowns).sort() with _Cown.__lt__ = comparison of region identities
SortCowns(s) == IF s = <<>> THEN <<>> ELSE Insert(Head(s), SortCowns(Tail(s)))

\* A mutant of the constructor: the requests keep the order of the call.
BehaviorCownsUnsorted(regions) == regions

\* _Behavior.__init__: one _Request per cown of the sorted list, duplicates kept.
BehaviorCowns(regions) == SortCowns(regions)

\* A mutant of the constructor: no slack count.
BehaviorCountNoSlack(regions) == Len(regions)

\* _Behavior.__init__: self.count = len(cowns) + 1
BehaviorCount(regions) == Len(regions) + 1

Range(s) == {s[i] : i \in 1 .. Len(s)}

\* The region lists a when(...) call may pass: any order, duplicates allowed.
DeclLists == UNION {[1 .. n -> Regions] : n \in 0 .. MaxCowns}

\* The region lists without a repeated region.
DeclSets == {d \in DeclLists : Cardinality(Range(d)) = Len(d)}

Created == 1 .. nbeh

\* The regions of when(*regions) that when_ opens and closes.
Declared(b) == Range(requests[b])

\* The worker is inside a when(...) call (in schedule()).
Submitting(w) ==
    \E b \in Created : submitter[b] = w /\ spc[b] \notin {"done", "failed"}

\* Thread(target=self).start() happened for b.
Spawned(b) == tpc[b] # "none"

\* A mutant of resolve_one: the thread is started on every resolve.
SpawnAlways(c) == TRUE

\* A mutant of resolve_one: the thread is started one resolve early.
SpawnOneEarly(c) == c = 1

\* _Behavior.resolve_one: after the decrement, 'if self.count != 0: return'.
SpawnNow(c) == c = 0

\* The effect of b.resolve_one() on count and on the threads.
CountAfterResolve(b) == [count EXCEPT ![b] = @ - 1]

\* A mutant of resolve_one: the thread is never started.
TpcNeverStarted(t, b) == t

\* resolve_one: 'thread = Thread(target=self); thread.start()' at count zero
TpcAfterResolve(t, b) ==
    IF SpawnNow(count[b] - 1) THEN [t EXCEPT ![b] = "open"] ELSE t

\* ---------------------------------------------------------------------------
\* The region model of core.py: Region, RegionIsolatedObject, region()

\* Values a program assigns to an attribute or reads from it.
Unset == [kind |-> "unset", region |-> None, obj |-> NoObj]
\* a Region handle
RegionH(r) == [kind |-> "region", region |-> r, obj |-> NoObj]
\* a user object that is not wrapped (MockObject(), a dict)
Raw(o) == [kind |-> "raw", region |-> None, obj |-> o]
\* RegionIsolatedObject(r, o): '__region__' = identity(r), '__inner__' = o
Wrapped(o, r) == [kind |-> "wrapped", region |-> r, obj |-> o]

\* What the last call of the region interface did: the call, the worker, the
\* region it was made on, its argument, its outcome and the value it returned.
NoCall == [op |-> "none", w |-> Main, on |-> None, val |-> Unset, out |-> "ok",
           got |-> None]
Call(op, w, r, v, out, got) ==
    [op |-> op, w |-> w, on |-> r, val |-> v, out |-> out, got |-> got]

\* The worker is running user code: the main thread outside when() and wait(),
\* or the thread of a behavior inside its function body.
Running(w) ==
    /\ w \notin hung
    /\ ~Submitting(w)
    /\ IF w = Main THEN mpc = "run" ELSE w \in Created /\ tpc[w] = "body"

\* A mutant of region(): one entry of _region_aliases is followed, not the chain.
ResolveOneAlias(id, d) ==
    IF id = None \/ _region_aliases[id] = None THEN id ELSE _region_aliases[id]

\* The identity that region() returns for a '__region__' value: 'while
\* identity in _region_aliases: identity = _region_aliases[identity]', with d
\* rounds left; NoReturn when the loop does not end
RECURSIVE Resolve(_, _)
Resolve(id, d) ==
    IF id = None THEN None
    ELSE IF _region_aliases[id] = None THEN id
    ELSE IF d = 0 THEN NoReturn
    ELSE Resolve(_region_aliases[id], d - 1)

\* The region a call on the handle r is forwarded to: 'if self.alias: return
\* self.alias.op(...)', down the chain of aliases
RECURSIVE AliasTarget(_, _)
AliasTarget(r, d) ==
    IF alias[r] = None \/ d = 0 THEN r ELSE AliasTarget(alias[r], d - 1)

\* The handles a forwarded call passes through, r included.
RECURSIVE AliasChain(_, _)
AliasChain(r, d) ==
    IF alias[r] = None \/ d = 0 THEN {r} ELSE {r} \cup AliasChain(alias[r], d - 1)

\* region(x) for a Region x: its '__region__', through _region_aliases.
region(r) == Resolve(__region__[r], Depth)

\* Region.is_free
is_free(r) == region(r) = None

\* A mutant of the decorators: the check passes for a region that is closed
\* for every worker.
IsClosedOnlyForOthers(w, r) == is_open_[r] \notin {w, NoWorker}

\* Region.is_closed for the calling thread w: get_ident() != self.is_open_
is_closed(w, r) == is_open_[r] # w

\* Region._can_open: 'if self.is_open or self.is_free: return True', else the
\* parent's _can_open(); with d calls left on the stack
RECURSIVE CanOpen(_, _, _)
CanOpen(w, r, d) ==
    IF d = 0 THEN "RecursionError"
    ELSE IF is_open_[r] = w \/ is_free(r) THEN "True"
    ELSE CanOpen(w, region(r), d - 1)

\* Region.owns: any(other == child or child.owns(other) for child in
\* self.children), evaluated in list order, with d calls left on the stack
RECURSIVE Owns(_, _, _)
RECURSIVE OwnsAny(_, _, _)
OwnsAny(cs, other, d) ==
    IF cs = <<>> THEN "False"
    ELSE IF Head(cs) = other THEN "True"
    ELSE LET sub == Owns(Head(cs), other, d - 1)
         IN  IF sub = "False" THEN OwnsAny(Tail(cs), other, d) ELSE sub

Owns(r, other, d) ==
    IF d = 0 THEN "RecursionError" ELSE OwnsAny(children[r], other, d)

\* root_region(x) for an object of region r: 'while not r.is_free: r =
\* region(r)'; NoReturn when the loop does not end
RECURSIVE RootRegion(_, _)
RootRegion(r, d) ==
    IF d = 0 THEN NoReturn
    ELSE IF is_free(r) THEN r
    ELSE RootRegion(region(r), d - 1)

\* RegionIsolatedObject.can_assign(v) for an object of region r:
\* 'r.is_shared or region(self) == r or region(self).owns(r) or
\*  (r.is_free and root_region(self) != r)', evaluated left to right
CanAssign(r, v) ==
    IF is_shared_[v] \/ r = v THEN "True"
    ELSE LET o == Owns(r, v, Depth)
         IN  IF o # "False" THEN o
             ELSE IF ~is_free(v) THEN "False"
             ELSE IF RootRegion(r, Depth) = NoReturn THEN "NoReturn"
             ELSE IF RootRegion(r, Depth) # v THEN "True"
             ELSE "False"

\* Region.add_child(other): 'if not other.is_free: raise'
AddChildAccepts(v) == is_free(v)

\* The check of @isolated and @proxy on the root of the handle r:
\* region(self).is_closed, where self is the wrapper r.root
RootClosed(w, r) ==
    LET h == Resolve(home[r], Depth)
    IN  h \notin AllRegions \/ is_closed(w, h)

\* Outcome of RegionIsolatedObject.__setattr__(name, v) on the root of region
\* r by worker w, for a Region v
SetRegionOutcome(w, r, v) ==
    IF RootClosed(w, r) THEN "RegionIsolationError"
    ELSE LET ca == CanAssign(r, v)
         IN  IF ca = "False" THEN "RegionIsolationError"
             ELSE IF ca # "True" THEN ca
             ELSE IF AddChildAccepts(v) THEN "ok"
             ELSE "RegionIsolationError"

\* region(x) for a value that is not a Region: the tag of the wrapper, or the
\* '__region__' of the raw object (a dict or a list cannot carry one)
region_of(v) ==
    Resolve(IF v.kind = "wrapped" THEN v.region ELSE obj_region[v.obj], Depth)

\* Region._capture(obj, False) for a raw object: returns the tags after the
\* call and whether it returned (TRUE) or raised (FALSE)
RECURSIVE Capture(_, _, _)
Capture(r, o, tags) ==
    IF o \in Containers \/ Resolve(tags[o], Depth) = r THEN [tags |-> tags, ok |-> TRUE]
    ELSE IF tags[o] # None THEN [tags |-> tags, ok |-> FALSE]
    ELSE LET t1 == [tags EXCEPT ![o] = r]
         IN  IF Attr(o) = NoObj THEN [tags |-> t1, ok |-> TRUE]
             ELSE Capture(r, Attr(o), t1)

\* __setattr__: 'rset = regions(self, value).union([None, region(self)]);
\* if len(rset) > 2: raise'
InvalidAssignment(r, v) == region_of(v) \notin {None, r}

\* Reading 'lock' on a private region r by worker w: __getattr__ of the root is
\* @isolated; with the region open, getattr on the Root object finds no 'lock'
LockOutcome(w, r) ==
    IF RootClosed(w, r) THEN "RegionIsolationError" ELSE "AttributeError"

\* ---------------------------------------------------------------------------
\* Freezer and is_imm: the values a region holds and their frozen snapshots

\* A value: its type and the values it contains (the items of a container,
\* the values of a dict, the public data attributes of an object, the
\* attributes of the root of a Region).
Val(k, items) == [k |-> k, items |-> items]
IntV == Val("int", <<>>)
StrV == Val("str", <<>>)
NoValue == Val("none", <<>>)
NoFreeze == [arg |-> NoValue, res |-> NoValue]

\* The mutable types Freezer.freeze_value tells apart.
MutableKinds == {"list", "set", "tuple", "dict", "obj", "region"}

\* What a set can contain: numbers, objects and regions (hashed by identity),
\* tuples of such values.
RECURSIVE Hashable(_)
Hashable(v) ==
    \/ v.k \in {"int", "str", "obj", "region"}
    \/ v.k = "tuple" /\ \A i \in DOMAIN v.items : Hashable(v.items[i])

\* The values of nesting depth d or less, with one item at most per level.
RECURSIVE ValuesOfDepth(_)
ValuesOfDepth(d) ==
    IF d = 0 THEN {IntV}
    ELSE LET V == ValuesOfDepth(d - 1)
         IN  {IntV} \cup {Val(k, <<>>) : k \in MutableKinds}
                    \cup {Val(k, <<x>>) : k \in MutableKinds \ {"set"}, x \in V}
                    \cup {Val("set", <<x>>) : x \in {y \in V : Hashable(y)}}

\* is_imm: an ImmutableBuiltins value, or a frozenset or tuple (a namedtuple
\* is a tuple) of is_imm values
RECURSIVE is_imm(_)
is_imm(x) ==
    \/ x.k \in {"int", "str"}
    \/ /\ x.k \in {"tuple", "frozenset", "FrozenDict", "FrozenObject", "FrozenRegion"}
       /\ \A i \in DOMAIN x.items : is_imm(x.items[i])

\* Freezer.freeze_value, with freeze_list, freeze_set, freeze_tuple,
\* freeze_dict (the values are stored as they are, the prefix is appended),
\* freeze_object and, for a Region, the snapshot Region.freeze returns
RECURSIVE freeze_value(_)
freeze_value(v) ==
    LET each == [i \in DOMAIN v.items |-> freeze_value(v.items[i])]
    IN  IF is_imm(v) THEN v
        ELSE IF v.k = "list" THEN Val("tuple", each)
        ELSE IF v.k = "set" THEN Val("frozenset", each)
        ELSE IF v.k = "dict" THEN Val("FrozenDict", v.items \o <<StrV>>)
        ELSE IF v.k = "tuple" THEN Val("tuple", each)
        ELSE IF v.k = "region" THEN Val("FrozenRegion", each)
        ELSE Val("FrozenObject", each)

\* ---------------------------------------------------------------------------
\* The calls of the region interface, each one atomic step of its worker

\* A mutant of __enter__: a shared region is opened like a private one.
EnterOutcomeIgnoresShared(w, r) ==
    IF CanOpen(w, r, Depth) = "True" THEN "ok" ELSE "RecursionError"

\* Outcome of Region.__enter__: 'if self.is_shared: raise', then _can_open
EnterOutcome(w, r) ==
    IF is_shared_[r] THEN "RegionIsolationError"
    ELSE IF CanOpen(w, r, Depth) = "True" THEN "ok"
    ELSE "RecursionError"

\* 'with r:', Region.__enter__, which a merged handle forwards to its alias
Enter(w, r) ==
    LET t == AliasTarget(r, Depth)
        out == EnterOutcome(w, t)
    IN  /\ Running(w) /\ Len(scopes[w]) < MaxDepth
        /\ is_open_' = IF out = "ok" THEN [is_open_ EXCEPT ![t] = w] ELSE is_open_
        /\ scopes' = IF out = "ok" THEN [scopes EXCEPT ![w] = <<r>> \o @] ELSE scopes
        /\ ret' = Call("enter", w, r, Unset, out, None)
        /\ UNCHANGED <<svars, mvars, last, is_shared_, __region__, children, root,
                       obj_region, inner, hung, nfreeze>>

\* the end of the body of 'with r:', Region.__exit__: the __exit__ of the
\* alias if there is one, then self._close()
Exit(w) ==
    /\ Running(w) /\ scopes[w] # <<>>
    /\ is_open_' = [x \in AllRegions |->
                        IF x \in AliasChain(Head(scopes[w]), Depth) THEN NoWorker
                        ELSE is_open_[x]]
    /\ scopes' = [scopes EXCEPT ![w] = Tail(@)]
    /\ ret' = Call("exit", w, Head(scopes[w]), Unset, "ok", None)
    /\ UNCHANGED <<svars, mvars, last, is_shared_, __region__, children, root,
                   obj_region, inner, hung, nfreeze>>

\* 'r.f = v' for a Region v: Region.__setattr__, then __setattr__ of the root
\* with can_assign and add_child
SetAttrRegion(w, r, v) ==
    LET out == SetRegionOutcome(w, r, v)
    IN  /\ Running(w) /\ alias[r] = None /\ alias[v] = None
        /\ children' = IF out = "ok" THEN [children EXCEPT ![r] = Append(@, v)]
                       ELSE children
        /\ __region__' = IF out = "ok" THEN [__region__ EXCEPT ![v] = r]
                         ELSE __region__
        /\ root' = IF out = "ok" THEN [root EXCEPT ![r] = RegionH(v)] ELSE root
        /\ hung' = IF out = "NoReturn" THEN hung \cup {w} ELSE hung
        /\ ret' = Call("setattr", w, r, RegionH(v), out, None)
        /\ UNCHANGED <<svars, mvars, last, is_open_, is_shared_, obj_region, inner,
                       scopes, nfreeze>>

\* 'r.f = v' for a user object v, raw or wrapped: the region check, the wrap of
\* a raw object (RegionIsolatedObject.__init__ captures it), the store
SetAttrObject(w, r, v) ==
    LET cap == IF v.kind = "raw" THEN Capture(r, v.obj, obj_region)
               ELSE [tags |-> obj_region, ok |-> TRUE]
        early == RootClosed(w, r) \/ InvalidAssignment(r, v)
        out == IF early \/ ~cap.ok THEN "RegionIsolationError" ELSE "ok"
    IN  /\ Running(w) /\ alias[r] = None
        /\ obj_region' = IF early THEN obj_region ELSE cap.tags
        /\ root' = IF out = "ok" THEN [root EXCEPT ![r] = Wrapped(v.obj, r)]
                   ELSE root
        /\ ret' = Call("setattr", w, r, v, out, None)
        /\ UNCHANGED <<svars, mvars, last, is_open_, is_shared_, __region__, children,
                       inner, scopes, hung, nfreeze>>

\* An operation on the wrapped object stored in r, through a method decorated
\* with @isolated (__getattr__, __setattr__) or @proxy (__getitem__, __add__,
\* __lt__, __call__, __iter__, ...): the check, then the inner object's method
WrappedOp(w, r, op, n) ==
    LET x == root[r]
        out == IF RootClosed(w, r) THEN "RegionIsolationError" ELSE "ok"
    IN  /\ Running(w) /\ alias[r] = None /\ x.kind = "wrapped"
        /\ inner' = IF out = "ok" /\ op \in WriteOps
                    THEN [inner EXCEPT ![x.obj] = n] ELSE inner
        /\ ret' = Call(op, w, r, x, out,
                       IF out = "ok" /\ op \in ReadOps THEN inner[x.obj] ELSE None)
        /\ UNCHANGED <<svars, mvars, last, is_open_, is_shared_, __region__, children,
                       root, obj_region, scopes, hung, nfreeze>>

\* Region.make_shareable
MakeShareable(w, r) ==
    /\ Running(w) /\ alias[r] = None
    /\ last' = [last EXCEPT ![r] = NoReq]
    /\ is_shared_' = [is_shared_ EXCEPT ![r] = TRUE]
    /\ ret' = Call("make_shareable", w, r, Unset, "ok", None)
    /\ UNCHANGED <<svars, mvars, is_open_, __region__, children, root, obj_region,
                   inner, scopes, hung, nfreeze>>

\* The regions Region.freeze reaches from r: r, the Region stored in r, the
\* Region stored in that one, ... (Freezer.freeze_value calls value.freeze())
RECURSIVE Nested(_, _)
Nested(r, d) ==
    IF d = 0 \/ root[r].kind # "region" THEN {r}
    ELSE {r} \cup Nested(root[r].region, d - 1)

\* freeze never returns to its first caller: a region is reached again
RECURSIVE FreezeRecurs(_, _)
FreezeRecurs(r, d) ==
    IF root[r].kind # "region" THEN FALSE
    ELSE IF d = 0 THEN TRUE
    ELSE FreezeRecurs(root[r].region, d - 1)

\* The regions whose root is replaced and whose '__region__' is set to None
\* by a freeze of r that returns
FreedByFreeze(r) == Nested(r, Depth)

\* Region.freeze: 'if self.is_open: raise FreezeException', the snapshot of
\* the root (which freezes the regions stored in it), then the fresh root and
\* '__region__' = None
Freeze(w, r) ==
    LET out == IF \E x \in Nested(r, Depth) : is_open_[x] = w THEN "FreezeException"
               ELSE IF FreezeRecurs(r, Depth) THEN "RecursionError"
               ELSE "ok"
    IN  /\ Running(w) /\ alias[r] = None /\ nfreeze < MaxFreeze
        /\ nfreeze' = nfreeze + 1
        /\ root' = IF out = "ok"
                   THEN [x \in AllRegions |-> IF x \in Nested(r, Depth) THEN Unset ELSE root[x]]
                   ELSE root
        /\ __region__' = IF out = "ok"
                         THEN [x \in AllRegions |->
                                  IF x \in FreedByFreeze(r) THEN None ELSE __region__[x]]
                         ELSE __region__
        /\ ret' = Call("freeze", w, r, Unset, out, None)
        /\ UNCHANGED <<svars, mvars, last, is_open_, is_shared_, children, obj_region,
                       inner, scopes, hung>>

\* _Cown.exchange on a region that was never made shareable: 'with
\* self.region.lock' reads the attribute 'lock' through Region.__getattr__ and
\* the root's __getattr__, which raises; the exception leaves schedule() and
\* when()
ExchangeRaises(b) ==
    /\ b \in Created /\ spc[b] = "start"
    /\ LET r == requests[b][sidx[b]]
       IN  /\ ~is_shared_[r]
           /\ ret' = Call("when", submitter[b], r, Unset, LockOutcome(submitter[b], r), None)
    /\ spc' = [spc EXCEPT ![b] = "failed"]
    /\ UNCHANGED <<nbeh, submitter, requests, count, next, scheduled, last,
                   is_open_, sidx, prev, tpc, ridx, t_count, t_event,
                   exceptions, mpc, wait_ex, notice, kind, nread, data, seen,
                   order, raised, before, is_shared_, __region__, children,
                   root, obj_region, inner, scopes, hung, nfreeze, mvars>>

\* ---------------------------------------------------------------------------
\* merge, detach_all, the status properties, Region(name), Freezer

\* Region.merge(other) on the handle r by worker w, for a handle o that was
\* never merged and whose root is its own: the call is forwarded to the alias;
\* 'if self.is_closed: raise', 'if not self.is_free: raise', the entry of
\* _region_aliases, other.root.move(self), the store of the moved root under a
\* random name (through the @isolated __setattr__ of self.root), other.alias.
\* With other == self the capture inside move() calls region(), whose loop
\* over _region_aliases does not end.
Merge(w, r, o) ==
    LET t == AliasTarget(r, Depth)
        early == is_closed(w, t) \/ ~is_free(t)
        hang == ~early /\ o = t
        late == ~early /\ ~hang /\ RootClosed(w, t)
        out == IF early \/ late THEN "RegionIsolationError"
               ELSE IF hang THEN "NoReturn" ELSE "ok"
    IN  /\ Running(w) /\ alias[o] = None /\ home[o] = o
        /\ _region_aliases' = IF early THEN _region_aliases
                              ELSE [_region_aliases EXCEPT ![o] = t]
        /\ home' = IF early THEN home ELSE [home EXCEPT ![o] = t]
        /\ merged' = IF out = "ok" THEN [merged EXCEPT ![t] = @ \cup {o}] ELSE merged
        /\ alias' = IF out = "ok" THEN [alias EXCEPT ![o] = t] ELSE alias
        /\ hung' = IF hang THEN hung \cup {w} ELSE hung
        /\ ret' = Call("merge", w, r, RegionH(o), out, None)
        /\ UNCHANGED <<svars, last, is_open_, is_shared_, __region__, children,
                       root, obj_region, inner, scopes, nfreeze, fresh, rname,
                       frz, cvars>>

\* Region._capture(obj, True) for the object o: every object reached from o
\* gets the tag of r (a dict or a list cannot carry one)
RECURSIVE CaptureOver(_, _, _)
CaptureOver(r, o, tags) ==
    IF o \in Containers \/ Resolve(tags[o], Depth) = r THEN tags
    ELSE LET t1 == [tags EXCEPT ![o] = r]
         IN  IF Attr(o) = NoObj THEN t1 ELSE CaptureOver(r, Attr(o), t1)

\* The identity Region.__init__ takes from _counter.
NextIdentity == CHOOSE n \in fresh : \A m \in fresh : n <= m

\* Region.detach_all on the handle r by worker w (r not merged, nothing
\* merged into r): 'if self.is_closed: raise', 'if self.is_private: raise',
\* the new Region, self.root.move(r) with its capture of what the root holds
\* (a wrapped object is moved; a free Region is attached; a Region that has a
\* parent raises, after the wrapper of the root got the tag of the new
\* region), the fresh root of self
DetachAll(w, r) ==
    LET early == is_closed(w, r) \/ ~is_shared_[r]
        n == NextIdentity
        v == root[r]
        blocked == ~early /\ v.kind = "region" /\ ~is_free(v.region)
        out == IF early \/ blocked THEN "RegionIsolationError" ELSE "ok"
    IN  /\ Running(w) /\ alias[r] = None /\ merged[r] = {}
        /\ early \/ fresh # {}
        /\ fresh' = IF early THEN fresh ELSE fresh \ {n}
        /\ home' = IF early THEN home
                   ELSE IF blocked THEN [home EXCEPT ![r] = n]
                   ELSE [home EXCEPT ![r] = r, ![n] = n]
        /\ root' = IF out # "ok" THEN root
                   ELSE [root EXCEPT ![r] = Unset,
                                     ![n] = IF v.kind = "wrapped"
                                            THEN Wrapped(v.obj, n) ELSE v]
        /\ obj_region' = IF out = "ok" /\ v.kind = "wrapped"
                         THEN CaptureOver(n, v.obj, obj_region) ELSE obj_region
        /\ children' = IF out = "ok" /\ v.kind = "region"
                       THEN [children EXCEPT ![n] = Append(@, v.region)]
                       ELSE children
        /\ __region__' = IF out = "ok" /\ v.kind = "region"
                         THEN [__region__ EXCEPT ![v.region] = n]
                         ELSE __region__
        /\ ret' = Call("detach_all", w, r, v, out, IF out = "ok" THEN n ELSE None)
        /\ UNCHANGED <<svars, last, is_open_, is_shared_, inner, scopes, hung,
                       nfreeze, alias, _region_aliases, merged, rname, frz,
                       cvars>>

\* The value of a status property read on the handle r by worker w: is_shared,
\* is_private and is_open return the property of the alias; is_closed reads
\* 'self.alias.is_close', an attribute no Region has, which Region.__getattr__
\* looks up in the root of the alias
RECURSIVE StatusOutcome(_, _, _, _)
StatusOutcome(w, r, p, d) ==
    IF alias[r] # None /\ d > 0
    THEN IF p = "is_closed"
         THEN IF RootClosed(w, AliasTarget(r, Depth)) THEN "RegionIsolationError"
              ELSE "AttributeError"
         ELSE StatusOutcome(w, alias[r], p, d - 1)
    ELSE IF p = "is_shared" THEN (IF is_shared_[r] THEN "True" ELSE "False")
    ELSE IF p = "is_private" THEN (IF is_shared_[r] THEN "False" ELSE "True")
    ELSE IF p = "is_open" THEN (IF is_open_[r] = w THEN "True" ELSE "False")
    ELSE (IF is_open_[r] = w THEN "False" ELSE "True")

\* 'r.is_shared', 'r.is_private', 'r.is_open', 'r.is_closed'
Status(w, r, p) ==
    /\ Running(w)
    /\ ret' = Call(p, w, r, Unset, StatusOutcome(w, r, p, Depth), None)
    /\ UNCHANGED <<svars, mvars, last, is_open_, is_shared_, __region__,
                   children, root, obj_region, inner, scopes, hung, nfreeze>>

\* Region.owns(x) on the handle r: the result of self.alias.owns(x) is
\* dropped (only its exception is seen), then the children of r itself decide
RECURSIVE HandleOwns(_, _, _)
HandleOwns(r, x, d) ==
    IF alias[r] # None /\ d > 0 /\ HandleOwns(alias[r], x, d - 1) = "RecursionError"
    THEN "RecursionError"
    ELSE Owns(r, x, Depth)

\* 'r.owns(x)'
OwnsCall(w, r, x) ==
    /\ Running(w)
    /\ ret' = Call("owns", w, r, RegionH(x), HandleOwns(r, x, Depth), None)
    /\ UNCHANGED <<svars, mvars, last, is_open_, is_shared_, __region__,
                   children, root, obj_region, inner, scopes, hung, nfreeze>>

\* Region.__init__: 'if name in _regions', where the keys of _regions are the
\* identities of the regions constructed so far
NameInRegistry(nm) == nm \in AllRegions \ fresh

\* 'Region(nm)': the check of the name, the identity from the counter, the
\* entry of _regions, the new fields
Create(w, nm) ==
    LET n == NextIdentity
        out == IF NameInRegistry(nm) THEN "AttributeError" ELSE "ok"
    IN  /\ Running(w) /\ fresh # {}
        /\ fresh' = IF out = "ok" THEN fresh \ {n} ELSE fresh
        /\ rname' = IF out = "ok" THEN [rname EXCEPT ![n] = nm] ELSE rname
        /\ ret' = Call("Region", w, IF out = "ok" THEN n ELSE None, Unset, out, None)
        /\ UNCHANGED <<svars, last, is_open_, is_shared_, __region__, children,
                       root, obj_region, inner, scopes, hung, nfreeze, alias,
                       _region_aliases, merged, home, frz, cvars>>

\* 'frozen = r.freeze()' on a closed region whose root holds frz.arg: the
\* snapshot Freezer.freeze_object builds
FreezerCall ==
    /\ frz.arg # NoValue /\ frz.res = NoValue
    /\ frz' = [frz EXCEPT !.res = freeze_value(frz.arg)]
    /\ UNCHANGED <<svars, last, is_open_, is_shared_, __region__, children,
                   root, obj_region, inner, scopes, ret, hung, nfreeze, alias,
                   _region_aliases, merged, home, fresh, rname, cvars>>

\* ---------------------------------------------------------------------------
\* Region.__init__ run by several threads.  The interpreter switches threads
\* after a call: after 'object.__setattr__(self, "__identity__", ...)' and not
\* between '_regions[_counter["value"]] = self' and '_counter["value"] += 1'.

\* The Region objects under construction or constructed, in the order their
\* constructors began, and the keys of _regions.
RegionObjects == 1 .. MaxCreate
Keys == 0 .. MaxCreate - 1
NoRegion == 0
NoIdentity == -1

\* Region.__init__ up to 'object.__setattr__(self, "__identity__",
\* _counter["value"])', called as Region() or inside detach_all
SetIdentity(w) ==
    /\ Running(w) /\ cpc[w] = "idle" /\ nobj < MaxCreate
    /\ nobj' = nobj + 1
    /\ identity_' = [identity_ EXCEPT ![nobj + 1] = _counter]
    /\ cobj' = [cobj EXCEPT ![w] = nobj + 1]
    /\ cpc' = [cpc EXCEPT ![w] = "register"]
    /\ UNCHANGED <<svars, last, is_open_, is_shared_, __region__, children,
                   root, obj_region, inner, scopes, ret, hung, nfreeze, alias,
                   _region_aliases, merged, home, fresh, rname, frz, _counter,
                   _regions>>

\* Region.__init__, '_regions[_counter["value"]] = self' and
\* '_counter["value"] += 1', then the fields of the new region
Register(w) ==
    /\ cpc[w] = "register"
    /\ _regions' = [_regions EXCEPT ![_counter] = cobj[w]]
    /\ _counter' = _counter + 1
    /\ cpc' = [cpc EXCEPT ![w] = "idle"]
    /\ UNCHANGED <<svars, last, is_open_, is_shared_, __region__, children,
                   root, obj_region, inner, scopes, ret, hung, nfreeze, alias,
                   _region_aliases, merged, home, fresh, rname, frz, identity_,
                   cobj, nobj>>

\* The Region objects whose constructor has returned.
Constructed ==
    {o \in 1 .. nobj : \A w \in Workers : ~(cpc[w] = "register" /\ cobj[w] = o)}

\* ---------------------------------------------------------------------------
\* Initial state: the module globals of when.py and notice.py, shared regions
\* with an empty queue (Region.make_shareable), no behavior yet.

InitHeapFresh(shared, unborn) ==
    /\ is_shared_ = [r \in AllRegions |-> r \in shared]
    /\ __region__ = [r \in AllRegions |-> None]
    /\ children = [r \in AllRegions |-> <<>>]
    /\ root = [r \in AllRegions |-> Unset]
    /\ obj_region = [o \in Objects |-> None]
    /\ inner = [o \in Objects |-> 0]
    /\ scopes = [w \in Workers |-> <<>>]
    /\ ret = NoCall
    /\ hung = {}
    /\ nfreeze = 0
    /\ alias = [r \in AllRegions |-> None]
    /\ _region_aliases = [r \in AllRegions |-> None]
    /\ merged = [r \in AllRegions |-> {}]
    /\ home = [r \in AllRegions |-> r]
    /\ fresh = unborn
    /\ rname = [r \in AllRegions |-> None]
    /\ _counter = 0
    /\ _regions = [k \in Keys |-> NoRegion]
    /\ identity_ = [o \in RegionObjects |-> NoIdentity]
    /\ cpc = [w \in Workers |-> "idle"]
    /\ cobj = [w \in Workers |-> NoRegion]
    /\ nobj = 0

\* The heap of a program whose regions are all constructed.
InitHeap(shared) == InitHeapFresh(shared, {}) /\ frz = NoFreeze

Init ==
    /\ InitHeap(Regions)
    /\ nbeh = 0
    /\ submitter = [b \in Behaviors |-> Main]
    /\ requests = [b \in Behaviors |-> <<>>]
    /\ count = [b \in Behaviors |-> 0]
    /\ next = [b \in Behaviors |-> [i \in ReqIdx |-> None]]
    /\ scheduled = [b \in Behaviors |-> [i \in ReqIdx |-> FALSE]]
    /\ last = [r \in AllRegions |-> NoReq]
    /\ is_open_ = [r \in AllRegions |-> NoWorker]
    /\ spc = [b \in Behaviors |-> "new"]
    /\ sidx = [b \in Behaviors |-> 0]
    /\ prev = [b \in Behaviors |-> NoReq]
    /\ tpc = [b \in Behaviors |-> "none"]
    /\ ridx = [b \in Behaviors |-> 0]
    /\ t_count = 1
    /\ t_event = FALSE
    /\ exceptions = <<>>
    /\ mpc = "run"
    /\ wait_ex = None
    /\ notice = None
    /\ kind = [b \in Behaviors |-> "plain"]
    /\ nread = [b \in Behaviors |-> None]
    /\ data = [r \in Regions |-> {}]
    /\ seen = [b \in Behaviors |-> [r \in Regions |-> {}]]
    /\ order = [r \in Regions |-> <<>>]
    /\ raised = <<>>
    /\ before = [b \in Behaviors |-> {}]

\* ---------------------------------------------------------------------------
\* when(*regions)(func) up to the call of schedule(): the _Cown list and the
\* _Behavior are constructed by worker w, which is the main thread or the
\* thread of a behavior whose thunk is running.

CanSubmit(w) ==
    /\ nbeh < MaxBehaviors
    /\ ~Submitting(w)
    /\ IF w = Main THEN mpc = "run" ELSE w \in Created /\ tpc[w] = "body"

\* Position of schedule() once request i has been dealt with in phase 1.
AfterStart(b, i) ==
    IF i < Len(requests[b]) THEN <<"start", i + 1>> ELSE <<"finish", 1>>

When(w, regions, k) ==
    LET b == nbeh + 1
        cowns == BehaviorCowns(regions)
    IN  /\ CanSubmit(w)
        /\ nbeh' = b
        /\ submitter' = [submitter EXCEPT ![b] = w]
        /\ requests' = [requests EXCEPT ![b] = cowns]
        /\ count' = [count EXCEPT ![b] = BehaviorCount(cowns)]
        /\ kind' = [kind EXCEPT ![b] = k]
        /\ spc' = [spc EXCEPT ![b] = IF Len(cowns) > 0 THEN "start" ELSE "slack"]
        /\ sidx' = [sidx EXCEPT ![b] = IF Len(cowns) > 0 THEN 1 ELSE 0]
        /\ before' = [before EXCEPT ![b] = {a \in Created : spc[a] = "done"}]
        /\ UNCHANGED <<next, scheduled, last, is_open_, prev, tpc, ridx, t_count,
                   t_event, exceptions, mpc, wait_ex, notice, nread, data,
                   seen, order, raised, rvars>>

\* _Request.start_enqueue: prev = self.target.exchange(self); with an idle
\* region ('if prev is None') behavior.resolve_one() and return
StartEnqueue(b) ==
    /\ b \in Created /\ spc[b] = "start"
    /\ LET r == requests[b][sidx[b]]
       IN  /\ is_shared_[r]
           /\ prev' = [prev EXCEPT ![b] = last[r]]
           /\ last' = [last EXCEPT ![r] = <<b, sidx[b]>>]
           /\ order' = [order EXCEPT ![r] = Append(@, <<b, sidx[b]>>)]
           /\ IF last[r] = NoReq
              THEN /\ count' = CountAfterResolve(b)
                   /\ tpc' = TpcAfterResolve(tpc, b)
                   /\ spc' = [spc EXCEPT ![b] = AfterStart(b, sidx[b])[1]]
                   /\ sidx' = [sidx EXCEPT ![b] = AfterStart(b, sidx[b])[2]]
              ELSE /\ spc' = [spc EXCEPT ![b] = "setnext"]
                   /\ UNCHANGED <<count, tpc, sidx>>
    /\ UNCHANGED <<nbeh, submitter, requests, next, scheduled, is_open_, ridx,
                   t_count, t_event, exceptions, mpc, wait_ex, notice, kind,
                   nread, data, seen, raised, before, rvars>>

\* start_enqueue, 'prev.set_next(behavior)'
SetNext(b) ==
    /\ b \in Created /\ spc[b] = "setnext"
    /\ next' = [next EXCEPT ![prev[b][1]][prev[b][2]] = b]
    /\ spc' = [spc EXCEPT ![b] = "spin"]
    /\ UNCHANGED <<nbeh, submitter, requests, count, scheduled, last,
                   is_open_, sidx, prev, tpc, ridx, t_count, t_event,
                   exceptions, mpc, wait_ex, notice, kind, nread, data, seen,
                   order, raised, before, rvars>>

\* start_enqueue, the spin 'while True: if prev.is_scheduled(): break' ends
SpinDone(b) ==
    /\ b \in Created /\ spc[b] = "spin"
    /\ scheduled[prev[b][1]][prev[b][2]]
    /\ spc' = [spc EXCEPT ![b] = AfterStart(b, sidx[b])[1]]
    /\ sidx' = [sidx EXCEPT ![b] = AfterStart(b, sidx[b])[2]]
    /\ UNCHANGED <<nbeh, submitter, requests, count, next, scheduled, last,
                   is_open_, prev, tpc, ridx, t_count, t_event, exceptions,
                   mpc, wait_ex, notice, kind, nread, data, seen, order,
                   raised, before, rvars>>

\* _Request.finish_enqueue of request sidx[b]
FinishEnqueue(b) ==
    /\ b \in Created /\ spc[b] = "finish"
    /\ scheduled' = [scheduled EXCEPT ![b][sidx[b]] = TRUE]
    /\ spc' = [spc EXCEPT ![b] = IF sidx[b] < Len(requests[b]) THEN "finish" ELSE "slack"]
    /\ sidx' = [sidx EXCEPT ![b] = IF sidx[b] < Len(requests[b]) THEN @ + 1 ELSE 0]
    /\ UNCHANGED <<nbeh, submitter, requests, count, next, last, is_open_,
                   prev, tpc, ridx, t_count, t_event, exceptions, mpc, wait_ex,
                   notice, kind, nread, data, seen, order, raised, before,
                   rvars>>

\* schedule(), 'self.resolve_one()' for the additional count
ResolveSlack(b) ==
    /\ b \in Created /\ spc[b] = "slack"
    /\ count' = CountAfterResolve(b)
    /\ tpc' = TpcAfterResolve(tpc, b)
    /\ spc' = [spc EXCEPT ![b] = "incr"]
    /\ UNCHANGED <<nbeh, submitter, requests, next, scheduled, last, is_open_,
                   sidx, prev, ridx, t_count, t_event, exceptions, mpc,
                   wait_ex, notice, kind, nread, data, seen, order, raised,
                   before, rvars>>

\* schedule(), '_terminator.increment()', then _behaviors.append and return
Increment(b) ==
    /\ b \in Created /\ spc[b] = "incr"
    /\ t_count' = t_count + 1
    /\ spc' = [spc EXCEPT ![b] = "done"]
    /\ UNCHANGED <<nbeh, submitter, requests, count, next, scheduled, last,
                   is_open_, sidx, prev, tpc, ridx, t_event, exceptions, mpc,
                   wait_ex, notice, kind, nread, data, seen, order, raised,
                   before, rvars>>

\* ---------------------------------------------------------------------------
\* The thread of a behavior: _Behavior.__call__ running lambda: _safe_run(when_)

\* Position of __call__ once the thunk is over.
AfterThunk(b) == IF Len(requests[b]) > 0 THEN <<"release", 1>> ELSE <<"decr", 0>>

\* Position of __call__ once request i has been released.
AfterRelease(b, i) ==
    IF i < Len(requests[b]) THEN <<"release", i + 1>> ELSE <<"decr", 0>>

\* when_, 'for r in regions: if r.is_shared: r._open()', and the first reads of
\* the function body
Open(b) ==
    /\ b \in Created /\ tpc[b] = "open"
    /\ is_open_' = [r \in AllRegions |-> IF r \in Declared(b) THEN b ELSE is_open_[r]]
    /\ seen' = [seen EXCEPT ![b] =
                   [r \in Regions |-> IF r \in Declared(b) THEN data[r] ELSE {}]]
    /\ tpc' = [tpc EXCEPT ![b] = "body"]
    /\ UNCHANGED <<nbeh, submitter, requests, count, next, scheduled, last,
                   spc, sidx, prev, ridx, t_count, t_event, exceptions, mpc,
                   wait_ex, notice, kind, nread, data, order, raised, before,
                   rvars>>

\* Notice.exchange(v) under the lock of the notice: the value stored before
\* the write is returned, v is stored
NoticeExchange(v) == [prev |-> notice, value |-> v]

\* NoticeBoard.exchange(key, v): 'self.notices[key].exchange(value)', a
\* statement without 'return': the caller gets None
BoardExchange(v) == [prev |-> None, value |-> NoticeExchange(v).value]

\* notice_exchange(key, v): 'return noticeboard.exchange(key, value)'
notice_exchange(v) == BoardExchange(v)

\* when_, the function body ends normally (it writes its regions, reads or
\* exchanges the notice), then 'for r in regions: r._close()'
ThunkReturn(b) ==
    /\ b \in Created /\ tpc[b] = "body" /\ ~Submitting(b)
    /\ data' = [r \in Regions |-> IF r \in Declared(b) THEN data[r] \cup {b} ELSE data[r]]
    /\ nread' = [nread EXCEPT ![b] = IF kind[b] = "read" THEN notice
                                     ELSE IF kind[b] = "write"
                                     THEN notice_exchange(b).prev ELSE @]
    /\ notice' = IF kind[b] = "write" THEN notice_exchange(b).value ELSE notice
    /\ is_open_' = [r \in AllRegions |->
                        IF r \in Declared(b) THEN NoWorker ELSE is_open_[r]]
    /\ tpc' = [tpc EXCEPT ![b] = AfterThunk(b)[1]]
    /\ ridx' = [ridx EXCEPT ![b] = AfterThunk(b)[2]]
    /\ UNCHANGED <<nbeh, submitter, requests, count, next, scheduled, last,
                   spc, sidx, prev, t_count, t_event, exceptions, mpc, wait_ex,
                   kind, seen, order, raised, before, rvars>>

\* A mutant of __call__: a thunk that raises ends the thread, nothing is
\* released.
ThunkRaiseNoRelease(b) ==
    /\ b \in Created /\ tpc[b] = "body" /\ ~Submitting(b)
    /\ exceptions' = Append(exceptions, b)
    /\ raised' = Append(raised, b)
    /\ tpc' = [tpc EXCEPT ![b] = "decr"]
    /\ UNCHANGED <<nbeh, submitter, requests, count, next, scheduled, last,
                   is_open_, spc, sidx, prev, ridx, t_count, t_event, mpc,
                   wait_ex, notice, kind, nread, data, seen, order, before,
                   rvars>>

\* when_, the function body raises: _safe_run puts the exception on _exceptions;
\* the closing loop of when_ is skipped
ThunkRaise(b) ==
    /\ b \in Created /\ tpc[b] = "body" /\ ~Submitting(b)
    /\ exceptions' = Append(exceptions, b)
    /\ raised' = Append(raised, b)
    /\ tpc' = [tpc EXCEPT ![b] = AfterThunk(b)[1]]
    /\ ridx' = [ridx EXCEPT ![b] = AfterThunk(b)[2]]
    /\ UNCHANGED <<nbeh, submitter, requests, count, next, scheduled, last,
                   is_open_, spc, sidx, prev, t_count, t_event, mpc, wait_ex,
                   notice, kind, nread, data, seen, order, before, rvars>>

\* _Request.release up to its first wait.  With no successor linked, the
\* compare_exchange that empties the queue (on success release returns, on
\* failure the spin begins); with a successor linked, the spin is passed at
\* once and 'self.next.resolve_one()' is called
ReleaseTry(b) ==
    /\ b \in Created /\ tpc[b] = "release"
    /\ LET i == ridx[b]
           r == requests[b][i]
           n == next[b][i]
       IN  IF n # None
           THEN /\ count' = CountAfterResolve(n)
                /\ tpc' = [TpcAfterResolve(tpc, n) EXCEPT ![b] = AfterRelease(b, i)[1]]
                /\ ridx' = [ridx EXCEPT ![b] = AfterRelease(b, i)[2]]
                /\ UNCHANGED last
           ELSE IF last[r] = <<b, i>>
           THEN /\ last' = [last EXCEPT ![r] = NoReq]
                /\ tpc' = [tpc EXCEPT ![b] = AfterRelease(b, i)[1]]
                /\ ridx' = [ridx EXCEPT ![b] = AfterRelease(b, i)[2]]
                /\ UNCHANGED count
           ELSE /\ tpc' = [tpc EXCEPT ![b] = "handoff"]
                /\ UNCHANGED <<last, ridx, count>>
    /\ UNCHANGED <<nbeh, submitter, requests, next, scheduled, is_open_, spc,
                   sidx, prev, t_count, t_event, exceptions, mpc, wait_ex,
                   notice, kind, nread, data, seen, order, raised, before,
                   rvars>>

\* _Request.release, the spin 'while True: if self.next is not None: break'
\* ends, then 'self.next.resolve_one()'
Handoff(b) ==
    /\ b \in Created /\ tpc[b] = "handoff"
    /\ LET i == ridx[b]
           n == next[b][i]
       IN  /\ n # None
           /\ count' = CountAfterResolve(n)
           /\ tpc' = [TpcAfterResolve(tpc, n) EXCEPT ![b] = AfterRelease(b, i)[1]]
           /\ ridx' = [ridx EXCEPT ![b] = AfterRelease(b, i)[2]]
    /\ UNCHANGED <<nbeh, submitter, requests, next, scheduled, last, is_open_,
                   spc, sidx, prev, t_count, t_event, exceptions, mpc, wait_ex,
                   notice, kind, nread, data, seen, order, raised, before,
                   rvars>>

\* _Terminator.decrement: 'if self._count == 0: self._event.set()'
EventAfter(c) == t_event \/ c = 0

\* __call__, '_terminator.decrement()'; the thread ends
Decrement(b) ==
    /\ b \in Created /\ tpc[b] = "decr"
    /\ t_count' = t_count - 1
    /\ t_event' = EventAfter(t_count - 1)
    /\ tpc' = [tpc EXCEPT ![b] = "done"]
    /\ UNCHANGED <<nbeh, submitter, requests, count, next, scheduled, last,
                   is_open_, spc, sidx, prev, ridx, exceptions, mpc, wait_ex,
                   notice, kind, nread, data, seen, order, raised, before,
                   rvars>>

\* ---------------------------------------------------------------------------
\* The main thread: wait()

\* wait(), '_terminator.wait()': self.decrement()
CallWait ==
    /\ mpc = "run" /\ ~Submitting(Main)
    /\ t_count' = t_count - 1
    /\ t_event' = EventAfter(t_count - 1)
    /\ mpc' = "blocked"
    /\ UNCHANGED <<nbeh, submitter, requests, count, next, scheduled, last,
                   is_open_, spc, sidx, prev, tpc, ridx, exceptions, wait_ex,
                   notice, kind, nread, data, seen, order, raised, before,
                   rvars>>

\* wait(), 'self._event.wait()' returns, then '_exceptions.get(block=False)'
\* and the raise of what it got
WaitReturn ==
    /\ mpc = "blocked" /\ t_event
    /\ wait_ex' = IF exceptions = <<>> THEN None ELSE Head(exceptions)
    /\ exceptions' = IF exceptions = <<>> THEN <<>> ELSE Tail(exceptions)
    /\ mpc' = "returned"
    /\ UNCHANGED <<nbeh, submitter, requests, count, next, scheduled, last,
                   is_open_, spc, sidx, prev, tpc, ridx, t_count, t_event,
                   notice, kind, nread, data, seen, order, raised, before,
                   rvars>>

\* ---------------------------------------------------------------------------
\* Specifications

\* Every step of a submitter, of a behavior thread and of wait()
Progress ==
    \/ \E b \in Behaviors : StartEnqueue(b)
    \/ \E b \in Behaviors : SetNext(b)
    \/ \E b \in Behaviors : SpinDone(b)
    \/ \E b \in Behaviors : FinishEnqueue(b)
    \/ \E b \in Behaviors : ResolveSlack(b)
    \/ \E b \in Behaviors : Increment(b)
    \/ \E b \in Behaviors : Open(b)
    \/ \E b \in Behaviors : ThunkReturn(b)
    \/ \E b \in Behaviors : ThunkRaise(b)
    \/ \E b \in Behaviors : ReleaseTry(b)
    \/ \E b \in Behaviors : Handoff(b)
    \/ \E b \in Behaviors : Decrement(b)
    \/ WaitReturn

\* The program: behaviors over any list of shared regions, submitted by the
\* main thread and from running thunks
Next ==
    \/ \E w \in Workers, regions \in DeclLists : When(w, regions, "plain")
    \/ CallWait
    \/ Progress

Spec == Init /\ [][Next]_vars

\* The same program with no region repeated in a when(...) call
NextSets ==
    \/ \E w \in Workers, regions \in DeclSets : When(w, regions, "plain")
    \/ CallWait
    \/ Progress

SpecSets == Init /\ [][NextSets]_vars

\* Fair scheduling of the threads: a step that stays possible is taken
FairSpec == Spec /\ WF_vars(Progress)

\* A program of zero-region behaviors whose thunks read the notice
\* (notice_read) or write their own id to it (notice_exchange)
NextNotice ==
    \/ \E w \in Workers, k \in {"read", "write"} : When(w, <<>>, k)
    \/ CallWait
    \/ \E b \in Behaviors : ResolveSlack(b)
    \/ \E b \in Behaviors : Increment(b)
    \/ \E b \in Behaviors : Open(b)
    \/ \E b \in Behaviors : ThunkReturn(b)
    \/ \E b \in Behaviors : Decrement(b)
    \/ WaitReturn

SpecNotice == Init /\ [][NextNotice]_vars

\* The main thread and the thread of a behavior over no region, both in user
\* code, with three new regions (closed, free, private) and free objects:
\* the state after '@when() def _(): ...' has started its function body
InitRegion ==
    /\ InitHeap({})
    /\ nbeh = 1
    /\ submitter = [b \in Behaviors |-> Main]
    /\ requests = [b \in Behaviors |-> <<>>]
    /\ count = [b \in Behaviors |-> 0]
    /\ next = [b \in Behaviors |-> [i \in ReqIdx |-> None]]
    /\ scheduled = [b \in Behaviors |-> [i \in ReqIdx |-> FALSE]]
    /\ last = [r \in AllRegions |-> NoReq]
    /\ is_open_ = [r \in AllRegions |-> NoWorker]
    /\ spc = [b \in Behaviors |-> IF b = 1 THEN "done" ELSE "new"]
    /\ sidx = [b \in Behaviors |-> 0]
    /\ prev = [b \in Behaviors |-> NoReq]
    /\ tpc = [b \in Behaviors |-> IF b = 1 THEN "body" ELSE "none"]
    /\ ridx = [b \in Behaviors |-> 0]
    /\ t_count = 2
    /\ t_event = FALSE
    /\ exceptions = <<>>
    /\ mpc = "run"
    /\ wait_ex = None
    /\ notice = None
    /\ kind = [b \in Behaviors |-> "plain"]
    /\ nread = [b \in Behaviors |-> None]
    /\ data = [r \in Regions |-> {}]
    /\ seen = [b \in Behaviors |-> [r \in Regions |-> {}]]
    /\ order = [r \in Regions |-> <<>>]
    /\ raised = <<>>
    /\ before = [b \in Behaviors |-> {}]

\* The user objects a worker can assign: raw, the wrapper stored in a region,
\* or the wrapper that reading an attribute of a stored object returns
ObjectValues ==
    {Raw(o) : o \in Objects}
        \cup {root[s] : s \in {x \in AllRegions : root[x].kind = "wrapped"}}
        \cup {Wrapped(Attr(root[s].obj), s) :
                 s \in {x \in AllRegions : /\ root[x].kind = "wrapped"
                                           /\ Attr(root[x].obj) # NoObj}}

\* Programs of region handles in the main thread: scopes, assignments of
\* regions, make_shareable
NextRegion ==
    \/ \E r \in AllRegions : Enter(Main, r)
    \/ Exit(Main)
    \/ \E r \in AllRegions, v \in AllRegions : SetAttrRegion(Main, r, v)
    \/ \E r \in Regions : MakeShareable(Main, r)

SpecRegion == InitRegion /\ [][NextRegion]_vars

\* Programs of region handles that also freeze regions
NextFreeze ==
    \/ \E r \in AllRegions : Enter(Main, r)
    \/ Exit(Main)
    \/ \E r \in AllRegions, v \in AllRegions : SetAttrRegion(Main, r, v)
    \/ \E r \in AllRegions : Freeze(Main, r)

SpecFreeze == InitRegion /\ [][NextFreeze]_vars

\* Programs of user objects in the main thread: scopes, assignments of raw
\* and of wrapped objects
NextObject ==
    \/ \E r \in AllRegions : Enter(Main, r)
    \/ Exit(Main)
    \/ \E r \in AllRegions, v \in ObjectValues : SetAttrObject(Main, r, v)

SpecObject == InitRegion /\ [][NextObject]_vars

\* Programs of wrapped objects: two workers enter and leave scopes, store the
\* dict and an object, and operate on what is stored
NextIsolation ==
    \/ \E w \in Workers, r \in Regions : Enter(w, r)
    \/ \E w \in Workers : Exit(w)
    \/ \E w \in Workers, r \in Regions, v \in {Raw("d"), Raw("o2")} :
           SetAttrObject(w, r, v)
    \/ \E w \in Workers, r \in Regions, op \in ReadOps : WrappedOp(w, r, op, 0)
    \/ \E w \in Workers, r \in Regions, op \in WriteOps, n \in Data :
           WrappedOp(w, r, op, n)

SpecIsolation == InitRegion /\ [][NextIsolation]_vars

\* New regions, no behavior yet: the state before the first call of a program
InitProgram ==
    /\ InitHeap({})
    /\ nbeh = 0
    /\ submitter = [b \in Behaviors |-> Main]
    /\ requests = [b \in Behaviors |-> <<>>]
    /\ count = [b \in Behaviors |-> 0]
    /\ next = [b \in Behaviors |-> [i \in ReqIdx |-> None]]
    /\ scheduled = [b \in Behaviors |-> [i \in ReqIdx |-> FALSE]]
    /\ last = [r \in AllRegions |-> NoReq]
    /\ is_open_ = [r \in AllRegions |-> NoWorker]
    /\ spc = [b \in Behaviors |-> "new"]
    /\ sidx = [b \in Behaviors |-> 0]
    /\ prev = [b \in Behaviors |-> NoReq]
    /\ tpc = [b \in Behaviors |-> "none"]
    /\ ridx = [b \in Behaviors |-> 0]
    /\ t_count = 1
    /\ t_event = FALSE
    /\ exceptions = <<>>
    /\ mpc = "run"
    /\ wait_ex = None
    /\ notice = None
    /\ kind = [b \in Behaviors |-> "plain"]
    /\ nread = [b \in Behaviors |-> None]
    /\ data = [r \in Regions |-> {}]
    /\ seen = [b \in Behaviors |-> [r \in Regions |-> {}]]
    /\ order = [r \in Regions |-> <<>>]
    /\ raised = <<>>
    /\ before = [b \in Behaviors |-> {}]

\* Programs that open and share regions in the main thread and submit
\* behaviors over shared and private regions
NextProgram ==
    \/ \E r \in Regions : Enter(Main, r)
    \/ Exit(Main)
    \/ \E r \in Regions : MakeShareable(Main, r)
    \/ \E regions \in DeclLists : nbeh < MaxProgram /\ When(Main, regions, "plain")
    \/ \E b \in Behaviors : StartEnqueue(b)
    \/ \E b \in Behaviors : ExchangeRaises(b)
    \/ \E b \in Behaviors : SetNext(b)
    \/ \E b \in Behaviors : SpinDone(b)
    \/ \E b \in Behaviors : FinishEnqueue(b)
    \/ \E b \in Behaviors : ResolveSlack(b)
    \/ \E b \in Behaviors : Increment(b)
    \/ \E b \in Behaviors : Open(b)
    \/ \E b \in Behaviors : ThunkReturn(b)
    \/ \E b \in Behaviors : ReleaseTry(b)
    \/ \E b \in Behaviors : Handoff(b)
    \/ \E b \in Behaviors : Decrement(b)

SpecProgram == InitProgram /\ [][NextProgram]_vars

\* The main thread and the thread of a behavior over no region, both in user
\* code: the scheduler state of InitRegion
InitWorkers ==
    /\ nbeh = 1
    /\ submitter = [b \in Behaviors |-> Main]
    /\ requests = [b \in Behaviors |-> <<>>]
    /\ count = [b \in Behaviors |-> 0]
    /\ next = [b \in Behaviors |-> [i \in ReqIdx |-> None]]
    /\ scheduled = [b \in Behaviors |-> [i \in ReqIdx |-> FALSE]]
    /\ last = [r \in AllRegions |-> NoReq]
    /\ is_open_ = [r \in AllRegions |-> NoWorker]
    /\ spc = [b \in Behaviors |-> IF b = 1 THEN "done" ELSE "new"]
    /\ sidx = [b \in Behaviors |-> 0]
    /\ prev = [b \in Behaviors |-> NoReq]
    /\ tpc = [b \in Behaviors |-> IF b = 1 THEN "body" ELSE "none"]
    /\ ridx = [b \in Behaviors |-> 0]
    /\ t_count = 2
    /\ t_event = FALSE
    /\ exceptions = <<>>
    /\ mpc = "run"
    /\ wait_ex = None
    /\ notice = None
    /\ kind = [b \in Behaviors |-> "plain"]
    /\ nread = [b \in Behaviors |-> None]
    /\ data = [r \in Regions |-> {}]
    /\ seen = [b \in Behaviors |-> [r \in Regions |-> {}]]
    /\ order = [r \in Regions |-> <<>>]
    /\ raised = <<>>
    /\ before = [b \in Behaviors |-> {}]

\* The regions a program holds a handle of: constructed, and returned to the
\* program (the region of a detach_all that raised is not)
Handles ==
    {r \in AllRegions \ fresh :
        ~\E x \in AllRegions : x # r /\ alias[x] = None /\ home[x] = r}

\* Programs that merge regions: scopes, assignments of objects, merge, the
\* status properties and owns on merged and unmerged handles
NextMerge ==
    \/ \E r \in AllRegions : Enter(Main, r)
    \/ Exit(Main)
    \/ \E r \in AllRegions : SetAttrObject(Main, r, Raw("o1"))
    \/ \E r \in AllRegions, o \in AllRegions : Merge(Main, r, o)
    \/ \E r \in AllRegions, p \in StatusOps : Status(Main, r, p)
    \/ \E r \in AllRegions, x \in AllRegions : OwnsCall(Main, r, x)

SpecMerge == InitRegion /\ [][NextMerge]_vars

\* Two regions, closed, free and private, the identity of a third one not yet
\* taken from the counter
InitDetach ==
    /\ InitWorkers
    /\ InitHeapFresh({}, AllRegions \ Regions)
    /\ frz = NoFreeze

\* Programs that detach the content of a region and merge it back: scopes,
\* assignments of an object and of regions, make_shareable, detach_all of a
\* region of the program, merge of a detached region
NextDetach ==
    \/ \E r \in Handles : Enter(Main, r)
    \/ Exit(Main)
    \/ \E r \in Handles : SetAttrObject(Main, r, Raw("o1"))
    \/ \E r \in Regions, v \in Regions : SetAttrRegion(Main, r, v)
    \/ \E r \in Regions : MakeShareable(Main, r)
    \/ \E r \in Regions : DetachAll(Main, r)
    \/ \E r \in Regions, o \in Handles \ Regions : Merge(Main, r, o)

SpecDetach == InitDetach /\ [][NextDetach]_vars

\* No region constructed yet
InitCreate ==
    /\ InitWorkers
    /\ InitHeapFresh({}, AllRegions)
    /\ frz = NoFreeze

\* Programs that construct regions by name and open them
NextCreate ==
    \/ \E nm \in Names : Create(Main, nm)
    \/ \E r \in Handles : Enter(Main, r)
    \/ Exit(Main)

SpecCreate == InitCreate /\ [][NextCreate]_vars

\* A closed region whose root holds one value of nesting depth MaxNest or
\* less, or nothing
InitFreezer ==
    /\ InitWorkers
    /\ InitHeapFresh({}, {})
    /\ \E x \in ValuesOfDepth(MaxNest) :
          frz \in {[arg |-> Val("region", <<x>>), res |-> NoValue],
                   [arg |-> Val("region", <<>>), res |-> NoValue]}

\* The freeze of that region
NextFreezer == FreezerCall

SpecFreezer == InitFreezer /\ [][NextFreezer]_vars

\* Programs in which a region is frozen while a worker may be inside a scope
\* on it: the main thread and the thread of a behavior enter, leave and
\* freeze; the main thread stores regions
NextFreezeOpen ==
    \/ \E w \in Workers, r \in Regions : Enter(w, r)
    \/ \E w \in Workers : Exit(w)
    \/ \E r \in Regions, v \in Regions : SetAttrRegion(Main, r, v)
    \/ \E w \in Workers, r \in Regions : Freeze(w, r)

SpecFreezeOpen == InitRegion /\ [][NextFreezeOpen]_vars

\* Programs of two threads, the main thread and the thread of a behavior,
\* that construct regions side by side
NextRace ==
    \/ \E w \in Workers : SetIdentity(w)
    \/ \E w \in Workers : Register(w)

SpecRace == InitRegion /\ [][NextRace]_vars

\* ---------------------------------------------------------------------------
\* Vocabulary of the properties

\* The thread of b is between its start and the end of the function body.
InThunk(b) == tpc[b] \in {"open", "body"}

\* Request <<b, i>> has been released (release returned for it).
ReleasedReq(b, i) ==
    \/ tpc[b] \in {"decr", "done"}
    \/ tpc[b] \in {"release", "handoff"} /\ ridx[b] > i

\* b has released region r: every request of b on r has been released.
Released(b, r) ==
    \A i \in 1 .. Len(requests[b]) : requests[b][i] = r => ReleasedReq(b, i)

\* b holds region r: its thread has started and it has not yet released r.
Holds(b, r) == r \in Declared(b) /\ Spawned(b) /\ ~Released(b, r)

\* Request p was exchanged onto region r before request q.
Ahead(p, q, r) ==
    \E i, j \in 1 .. Len(order[r]) : i < j /\ order[r][i] = p /\ order[r][j] = q

\* Behavior a is queued before behavior b on region r.
BehaviorAhead(a, b, r) ==
    \E i \in 1 .. Len(requests[a]), j \in 1 .. Len(requests[b]) :
        Ahead(<<a, i>>, <<b, j>>, r)

\* ---------------------------------------------------------------------------
\* C1: mutual exclusion on shared regions.  In every reachable state each
\* region is held (thread started, region not yet released) by at most one
\* behavior, two behaviors with a common region are never both in their thunk,
\* and while a function body runs its regions are open by its own thread.
C1_MutualExclusion ==
    /\ \A r \in Regions : \A a, b \in Created :
           Holds(a, r) /\ Holds(b, r) => a = b
    /\ \A a, b \in Created :
           a # b /\ Declared(a) \cap Declared(b) # {} => ~(InThunk(a) /\ InThunk(b))
    /\ \A b \in Created : tpc[b] = "body" =>
           \A r \in Declared(b) : is_open_[r] = b

\* C1 witness: a behavior runs its body over a region on which another
\* behavior, fully enqueued, waits for it.
C1_Witness ==
    \E a, b \in Created :
        /\ a # b /\ Declared(a) \cap Declared(b) # {}
        /\ tpc[a] = "body" /\ spc[b] = "done" /\ ~Spawned(b)

\* C2: per-region FIFO order.  If B1's when() had returned when B2's when() was
\* called and both declare region R, then once B2's thread has started B1 has
\* released R, and B2's body has read every write B1's body made to R.
C2_FifoOrder ==
    \A b1, b2 \in Created : \A r \in Regions :
        b1 \in before[b2] /\ r \in Declared(b1) \cap Declared(b2) /\ Spawned(b2)
        => /\ Released(b1, r)
           /\ (tpc[b2] # "open" /\ b1 \in data[r]) => b1 \in seen[b2][r]

\* C2 witness: B2 runs its body over R, having read the write of B1 that was
\* submitted before it.
C2_Witness ==
    \E b1, b2 \in Created : \E r \in Regions :
        /\ b1 \in before[b2] /\ r \in Declared(b1) \cap Declared(b2)
        /\ tpc[b2] = "body" /\ b1 \in seen[b2][r]

\* C3: atomic multi-region acquisition.  No two behaviors are queued in one
\* order on one region and in the opposite order on another region.
C3_SameOrder ==
    \A a, b \in Created : \A r1, r2 \in Regions :
        (a # b /\ r1 # r2) => ~(BehaviorAhead(a, b, r1) /\ BehaviorAhead(b, a, r2))

\* C3 witness: two behaviors with two common regions, submitted by different
\* workers, are in schedule() at the same time, one spinning on a request of
\* the other.
C3_Witness ==
    \E a, b \in Created :
        /\ submitter[a] # submitter[b]
        /\ Cardinality(Declared(a) \cap Declared(b)) >= 2
        /\ spc[a] \in {"start", "setnext", "spin", "finish"}
        /\ spc[b] = "spin" /\ prev[b][1] = a

\* C4: deadlock freedom.  Whenever no submitter, behavior thread or wait() can
\* take a step, every submitted behavior has started its thunk: no spin-wait
\* is left waiting and no behavior waits on another for ever.
C4_NoStuckBehavior == (~ENABLED Progress) => \A b \in Created : Spawned(b)

\* C4 as a temporal property: every submitted behavior eventually starts.
C4_EventuallyStarts == \A b \in Behaviors : (b \in Created) ~> Spawned(b)

\* C5: termination barrier.  wait() has returned only if every behavior
\* submitted so far has finished executing.
C5_WaitBarrier == mpc = "returned" => \A b \in Created : tpc[b] = "done"

\* The slack count of a behavior: released by the last resolve_one of schedule().
SlackOf(n) == IF spc[n] \in {"start", "setnext", "spin", "finish", "slack"} THEN 1 ELSE 0

\* Request <<n, j>> of n has been resolved: it is on its region's queue and the
\* request before it, if any, has been released.
Resolved(n, j) ==
    LET r == requests[n][j]
    IN  \E k \in 1 .. Len(order[r]) :
            /\ order[r][k] = <<n, j>>
            /\ k > 1 => ReleasedReq(order[r][k - 1][1], order[r][k - 1][2])

C8_SingleRequest ==
    \A b \in Created : Len(requests[b]) = Cardinality(Declared(b))

\* C9: zero-region behaviors.  A behavior over no regions has pending count 1
\* until the slack release of its own schedule(), which starts its thread; it
\* never enters phase 1, and no queue, request or spin ever refers to it.
C9_ZeroRegion ==
    \A b \in Created : requests[b] = <<>> =>
        /\ spc[b] \in {"slack", "incr", "done"}
        /\ spc[b] = "slack" => count[b] = 1 /\ ~Spawned(b)
        /\ spc[b] \in {"incr", "done"} => count[b] = 0 /\ Spawned(b)
        /\ \A r \in Regions : last[r][1] # b
        /\ \A a \in Created : prev[a][1] # b /\ \A i \in ReqIdx : next[a][i] # b

\* C9 witness: a zero-region behavior runs its body while a behavior submitted
\* after it runs its body over a region.
C9_Witness ==
    \E b, a \in Created :
        /\ requests[b] = <<>> /\ tpc[b] = "body"
        /\ a > b /\ requests[a] # <<>> /\ tpc[a] = "body"

\* C10: zero-region behaviors take effect in submission order.  With one
\* writer W, a finished reader submitted before W read the value from before
\* W's write, and a finished reader submitted after W read W's value.
C10_SubmissionOrder ==
    \A w, b \in Created :
        ( /\ kind[w] = "write" /\ kind[b] = "read" /\ tpc[b] \in {"decr", "done"}
          /\ \A x \in Created : kind[x] = "write" => x = w )
        => /\ b \in before[w] => nread[b] = None
           /\ w \in before[b] => nread[b] = w

\* ---------------------------------------------------------------------------
\* Behaviors over private regions, make_shareable

\* C11: a when() over a private region raises a region-isolation error at the
\* submission site, whether the region is closed or open in a scope of the
\* submitting worker.
C11_PrivateSubmissionRaisesIsolation ==
    ret.op = "when" => ret.out = "RegionIsolationError"

\* C12: make_shareable on a region that is already shared changes nothing: the
\* region stays shared and its queue tail 'last' is unchanged, also while
\* behaviors are queued or running on the region.
C12_MakeShareableIdempotent ==
    [][\A r \in Regions :
          (is_shared_[r] /\ MakeShareable(Main, r))
              => (is_shared_'[r] /\ last'[r] = last[r])]_vars

\* ---------------------------------------------------------------------------
\* Wrapped objects

\* C13: an operation on a wrapped object by a worker that does not have the
\* object's region open (closed, or open by another worker) raises a
\* region-isolation error, returns nothing of the object and leaves it as it
\* was.
C13_ClosedRegionIsolatesObject ==
    [][(ret'.op \in ReadOps \cup WriteOps /\ is_open_[ret'.on] # ret'.w)
          => /\ ret'.out = "RegionIsolationError"
             /\ ret'.got = None
             /\ inner' = inner]_vars

\* An operation was refused on an object whose region another worker has open.
C13_Witness ==
    /\ ret.op \in ReadOps \cup WriteOps
    /\ ret.out = "RegionIsolationError"
    /\ is_open_[ret.on] \notin {ret.w, NoWorker}

\* The object o is held by region s: it is the object stored in s, or the
\* attribute of the object stored in s.
StoredIn(o, s) ==
    /\ root[s].kind = "wrapped"
    /\ o \in {root[s].obj, Attr(root[s].obj)}

\* C14: an assignment 'R.attr = v' of a mutable object v that belongs to
\* another region S (stored in S, or reachable from the object stored in S)
\* raises a region-isolation error: no such assignment returns normally.
C14_CrossRegionLeakRejected ==
    (ret.op = "setattr" /\ ret.val.kind # "region" /\ ret.out = "ok")
        => ~\E s \in AllRegions \ {ret.on} : StoredIn(ret.val.obj, s)

\* ---------------------------------------------------------------------------
\* Assignments of region handles, the containment relation

\* The region c is in the children list of the region p.
InChildren(c, p) == \E i \in DOMAIN children[p] : children[p][i] = c

\* C15: for regions R1 and R2 both open and a free private region R3,
\* 'R1.f = R3' succeeds and makes R3 a child of R1, and a following
\* 'R2.f = R3' raises a region-isolation error.
C15_OwnershipRejection ==
    [][\A w \in Workers, R1 \in AllRegions, R2 \in AllRegions, R3 \in AllRegions :
          (/\ ret'.op = "setattr" /\ ret'.w = w
           /\ ret'.on = R1 /\ ret'.val = RegionH(R3)
           /\ R1 # R2 /\ R1 # R3 /\ R2 # R3
           /\ is_open_[R1] = w /\ is_open_[R2] = w
           /\ is_free(R3) /\ ~is_shared_[R3])
          => /\ ret'.out = "ok"
             /\ region(R3)' = R1
             /\ InChildren(R3, R1)'
             /\ SetRegionOutcome(w, R2, R3)' = "RegionIsolationError"]_vars

\* C16: 'R.attr = v' for a region handle v, R open by the caller, is accepted
\* whenever v is shared or R already owns v, also when v is not free: the
\* attribute is set, v becomes a child of R only if it was free, and otherwise
\* the containment relation is unchanged.
C16_AcceptedRegionAssignments ==
    [][\A R \in AllRegions, v \in AllRegions :
          (/\ ret'.op = "setattr" /\ ret'.on = R /\ ret'.val = RegionH(v)
           /\ is_open_[R] = ret'.w
           /\ (is_shared_[v] \/ Owns(R, v, Depth) = "True"))
          => /\ ret'.out = "ok"
             /\ root'[R] = RegionH(v)
             /\ IF is_free(v)
                THEN region(v)' = R /\ InChildren(v, R)'
                ELSE UNCHANGED <<__region__, children>>]_vars

\* C17: 'R.f = R' on a region R open by the caller succeeds without error,
\* whether R is free or owned by a parent.
C17_SelfAssignmentSucceeds ==
    [][(/\ ret'.op = "setattr" /\ ret'.val.kind = "region"
        /\ ret'.val.region = ret'.on
        /\ is_open_[ret'.on] = ret'.w)
          => ret'.out = "ok"]_vars

\* C18: the parent relation over regions is acyclic, and a region is in the
\* children list of exactly its parent and of no other region.
C18_Forest ==
    /\ \A r \in AllRegions : RootRegion(r, Depth) # NoReturn
    /\ \A r \in AllRegions, p \in AllRegions : InChildren(r, p) <=> region(r) = p

\* C19: while a parent P is open by a worker and a child C of P is not open by
\* that worker, a write to an attribute of C raises a region-isolation error,
\* and the assignment of a free region to an attribute of P succeeds and
\* attaches it as a child of P.
C19_OpenParentClosedChild ==
    [][\A w \in Workers, P \in AllRegions, C \in AllRegions, v \in AllRegions :
          (/\ ret'.op = "setattr" /\ ret'.w = w /\ ret'.val = RegionH(v)
           /\ is_open_[P] = w
           /\ C # P /\ region(C) = P /\ is_open_[C] # w)
          => /\ ret'.on = C => ret'.out = "RegionIsolationError"
             /\ (ret'.on = P /\ is_free(v))
                   => /\ ret'.out = "ok"
                      /\ region(v)' = P
                      /\ InChildren(v, P)']_vars

\* C20: 'with R' on a shared region raises a region-isolation error, does not
\* open the region and does not start the body of the scope.
C20_SharedRegionNotEntered ==
    [][(ret'.op = "enter" /\ is_shared_[ret'.on])
          => /\ ret'.out = "RegionIsolationError"
             /\ is_open_' = is_open_
             /\ scopes' = scopes]_vars

\* 'with R' was refused on a shared region, which is closed.
C20_Witness ==
    /\ ret.op = "enter"
    /\ is_shared_[ret.on]
    /\ ret.out = "RegionIsolationError"
    /\ is_open_[ret.on] = NoWorker

\* ---------------------------------------------------------------------------
\* Scopes on owned regions and between workers

\* C21: 'with R' on a private region R that has a parent which the worker has
\* not open (closed, or open by another worker) raises a region-isolation
\* error and leaves R closed.
C21_EnterNeedsOpenParent ==
    [][(/\ ret'.op = "enter"
        /\ ~is_shared_[ret'.on]
        /\ region(ret'.on) \in AllRegions \ {ret'.on}
        /\ is_open_[region(ret'.on)] # ret'.w)
          => /\ ret'.out = "RegionIsolationError"
             /\ is_open_' = is_open_]_vars

\* C22: while a worker W1 is inside a scope on the private region R, 'with R'
\* by another worker does not succeed and R stays open by W1.
C22_ScopeExclusiveBetweenWorkers ==
    [][\A w1 \in Workers :
          (/\ ret'.op = "enter"
           /\ ret'.w # w1
           /\ ~is_shared_[ret'.on]
           /\ is_open_[ret'.on] = w1
           /\ \E i \in DOMAIN scopes[w1] : scopes[w1][i] = ret'.on)
          => /\ ret'.out # "ok"
             /\ is_open_'[ret'.on] = w1]_vars

\* ---------------------------------------------------------------------------
\* freeze

\* C25: freeze of a region that is open by any worker, the caller or another
\* one, fails with an error and leaves every root and every parent as they
\* were.
C25_FreezeNeedsClosedRegion ==
    [][(ret'.op = "freeze" /\ is_open_[ret'.on] # NoWorker)
          => /\ ret'.out # "ok"
             /\ root' = root
             /\ __region__' = __region__]_vars

\* C26: after freeze of R has returned, the root of R is empty, R has no
\* parent, the former parent of R does not own R, and every region that was
\* stored inside R has an empty root and no parent.
C26_FreezeEmptiesAndFrees ==
    [][\A R \in AllRegions :
          (ret'.op = "freeze" /\ ret'.out = "ok" /\ ret'.on = R)
          => /\ \A x \in Nested(R, Depth) : root'[x] = Unset /\ __region__'[x] = None
             /\ \A P \in AllRegions :
                   region(R) = P => /\ ~InChildren(R, P)'
                                    /\ Owns(P, R, Depth)' # "True"]_vars

\* C27: the value freeze returns for a region whose content is built from
\* immutable values, lists, sets, tuples, dicts, objects and nested regions is
\* deeply immutable: is_imm of it is true.
C27_FrozenIsImmutable ==
    frz.res # NoValue => is_imm(frz.res)

\* ---------------------------------------------------------------------------
\* The registry of regions

\* C30: Region(name) with a name that a constructed region has raises an error
\* and constructs no region: no call Region(name) that returns a region was
\* given the name of a region constructed before.
C30_UniqueRegionNames ==
    [][(ret'.op = "Region" /\ ret'.out = "ok")
          => ~\E r \in AllRegions \ fresh : rname[r] = rname'[ret'.on]]_vars

\* ---------------------------------------------------------------------------
\* merge

\* C23: after self.merge(other) has returned, region(x) is self (the region
\* the handle self stands for) for every object x whose region was other
\* before the call, the objects of the regions merged into other before
\* included.
C23_MergeRehomesObjects ==
    [][\A S \in AllRegions, O \in AllRegions, x \in Objects :
          (/\ ret'.op = "merge" /\ ret'.out = "ok"
           /\ ret'.on = S /\ ret'.val = RegionH(O)
           /\ region_of(Raw(x)) = O)
          => region_of(Raw(x))' = AliasTarget(S, Depth)]_vars

\* A merge returned whose other had an earlier merge into it: an object of
\* that earlier region is now in self, two aliases away.
C23_Witness ==
    /\ ret.op = "merge" /\ ret.out = "ok"
    /\ \E x \in Objects :
          /\ obj_region[x] \in AllRegions \ {ret.val.region}
          /\ _region_aliases[obj_region[x]] = ret.val.region
          /\ region_of(Raw(x)) = ret.on

\* C24: after self.merge(other), a status property read on the handle other
\* (is_shared, is_private, is_open, is_closed) has the value it has on self,
\* and other.owns(x) answers what self.owns(x) answers.
C24_AliasDelegates ==
    [][\A w \in Workers, H \in AllRegions, x \in AllRegions :
          (ret'.w = w /\ ret'.on = H /\ alias[H] # None)
          => /\ ret'.op \in StatusOps
                   => ret'.out = StatusOutcome(w, AliasTarget(H, Depth), ret'.op, Depth)
             /\ (ret'.op = "owns" /\ ret'.val = RegionH(x))
                   => ret'.out = Owns(AliasTarget(H, Depth), x, Depth)]_vars

\* ---------------------------------------------------------------------------
\* detach_all

\* C28: detach_all on a region R that the caller has open and that is shared
\* returns a new private, free region whose root holds what the root of R
\* held, with the objects of R now in the new region, and leaves R with an
\* empty root; on a closed or a private R it raises a region-isolation error
\* and changes nothing.
C28_DetachAllMovesContent ==
    [][\A w \in Workers, R \in AllRegions :
          (ret'.op = "detach_all" /\ ret'.w = w /\ ret'.on = R)
          => IF is_open_[R] = w /\ is_shared_[R]
             THEN /\ ret'.out = "ok"
                  /\ root'[R] = Unset
                  /\ \A N \in AllRegions :
                        ret'.got = N
                        => /\ N \in fresh
                           /\ ~is_shared_'[N]
                           /\ is_free(N)'
                           /\ root'[N].kind = root[R].kind
                           /\ root'[N].obj = root[R].obj
                           /\ \A x \in Objects :
                                 region_of(Raw(x)) = R => region_of(Raw(x))' = N
             ELSE /\ ret'.out = "RegionIsolationError"
                  /\ UNCHANGED <<root, home, fresh, obj_region, __region__,
                                 children, is_shared_, is_open_>>]_vars

\* C29: for a region R that the caller has open and that is shared,
\* R.merge(R.detach_all()) leaves every attribute of R readable with the value
\* it had: after the merge the root of R holds what it held before the
\* detach_all.
C29_DetachMergeRoundTrip ==
    [][\A R \in AllRegions, N \in AllRegions :
          (/\ ret.op = "detach_all" /\ ret.out = "ok"
           /\ ret.on = R /\ ret.got = N
           /\ ret'.op = "merge" /\ ret'.out = "ok"
           /\ ret'.on = R /\ ret'.val = RegionH(N))
          => /\ root'[R].kind = ret.val.kind
             /\ root'[R].obj = ret.val.obj]_vars

\* ---------------------------------------------------------------------------
\* The notice

\* C31: notice_exchange returns the value the notice held immediately before
\* the caller's own write, so of several workers that exchange their values
\* into a notice holding None exactly one gets None.
C31_ExchangeReturnsPrevious ==
    [][\A b \in Behaviors :
          (kind[b] = "write" /\ tpc[b] = "body" /\ tpc'[b] # "body")
          => nread'[b] = notice]_vars

\* ---------------------------------------------------------------------------
\* The enqueue of a behavior and the end of its execution

\* C32: the thread of a behavior is not started before finish_enqueue has run
\* on every request of the behavior, and the count of a behavior does not
\* reach zero before the resolve_one at the end of schedule().
C32_EnqueueSlack ==
    \A b \in Created :
        (Spawned(b) \/ count[b] <= 0)
        => /\ spc[b] \in {"incr", "done"}
           /\ \A i \in 1 .. Len(requests[b]) : scheduled[b][i]

\* Every request of a behavior over MaxCowns regions was resolved during the
\* enqueue: only the additional count keeps the thread from starting.
C32_Witness ==
    \E b \in Created :
        /\ Len(requests[b]) = MaxCowns
        /\ spc[b] = "slack" /\ count[b] = 1 /\ ~Spawned(b)
        /\ \A i \in 1 .. Len(requests[b]) : scheduled[b][i]

\* C33: when the execution of a behavior has ended, by a return or by an
\* exception of its thunk, no region is open by the behavior: from the first
\* release on, every region the behavior opened has is_open_ = None.
C33_RegionsClosedOnEveryPath ==
    \A b \in Created :
        tpc[b] \in {"release", "handoff", "decr", "done"}
        => \A r \in Declared(b) : is_open_[r] # b

\* C34: a submission that fails because one of its regions is private leaves
\* the queues of the shared regions it declared as they were: no request of
\* the failed behavior is or was the last request of a region.
C34_FailedSubmissionChangesNoQueue ==
    \A b \in Created :
        spc[b] = "failed"
        => \A r \in Regions :
              /\ last[r][1] # b
              /\ \A k \in DOMAIN order[r] : order[r][k][1] # b

\* ---------------------------------------------------------------------------
\* Rejected assignments, identities

\* C35: an assignment 'R.attr = v' that raises a region-isolation error because
\* an object inside v (the attribute of v) belongs to another region leaves
\* the region of every object reachable from v as it was.
C35_RejectedAssignmentKeepsRegions ==
    [][\A o \in Objects :
          (/\ ret'.op = "setattr" /\ ret'.val = Raw(o)
           /\ ret'.out = "RegionIsolationError"
           /\ Attr(o) # NoObj
           /\ region_of(Raw(Attr(o))) \notin {None, ret'.on})
          => /\ region_of(Raw(o))' = region_of(Raw(o))
             /\ region_of(Raw(Attr(o)))' = region_of(Raw(Attr(o)))]_vars

\* C36: no two constructed regions have the same identity, the identities
\* increase in the order of construction, and _regions holds every
\* constructed region under its own identity, also when threads construct
\* regions side by side.
C36_UniqueIdentities ==
    \A o \in Constructed :
        /\ _regions[identity_[o]] = o
        /\ \A p \in Constructed : p < o => identity_[p] < identity_[o]

====
